---- MODULE Spec2Model ----
(***************************************************************************)
(* Model of the normalization layer of telegram-bot's raw types:           *)
(*   MessageEntity::deserialize  (src/raw/src/types/message.rs:421-462)    *)
(*   Message::deserialize        (src/raw/src/types/message.rs:195-306)    *)
(* Both are pure functions from a wire record to Result<domain value>.     *)
(* The state machine draws one wire record (a message or an entity) in     *)
(* Init and applies the matching deserializer in one step.                 *)
(*                                                                         *)
(* Encoding of Rust values:                                                *)
(*   Option<T>    None = <<>>,  Some(v) = <<v>>                            *)
(*   Result<T,E>  [ok |-> TRUE, val |-> v] / [ok |-> FALSE, val |-> e]     *)
(*   enum         a record with a "tag" field naming the variant           *)
(*   Vec<T>       a sequence                                               *)
(*   struct       a record with the struct's field names                   *)
(* Values of struct types whose fields play no part in the decoding        *)
(* (User, Audio, Document, ...) are opaque strings.                        *)
(***************************************************************************)
EXTENDS Integers, Sequences, FiniteSets, TLC

VARIABLES
    pc,       \* "message" / "entity": which deserializer is about to run; "done" after
    msgWire,  \* Option: the wire message handed to Message::deserialize
    msgRaw,   \* Option<Result<RawMessage>>: the value of line 200
    msgOut,   \* Option<Result<Message>>: what Message::deserialize returned
    entRaw,   \* Option: the RawMessageEntity handed to MessageEntity::deserialize
    entOut    \* Option<Result<MessageEntity>>

vars == <<pc, msgWire, msgRaw, msgOut, entRaw, entOut>>

None == <<>>
Some(v) == <<v>>
Ok(v) == [ok |-> TRUE, val |-> v]
Err(e) == [ok |-> FALSE, val |-> e]

\* D::Error::custom("invalid forward fields combination"), line 229
InvalidForward == [kind |-> "custom", arg |-> "invalid forward fields combination"]
\* D::Error::missing_field(stringify!($name)), line 436
MissingField(name) == [kind |-> "missing_field", arg |-> name]
\* the derived decoder's error for a key of RawMessage written twice, line 309
DuplicateField(name) == [kind |-> "duplicate_field", arg |-> name]

(***************************************************************************)
(* MessageEntity::deserialize                                              *)
(***************************************************************************)

\* required_field!, lines 432-439
required_field(raw, name) ==
    IF raw[name] # None THEN Ok(raw[name][1]) ELSE Err(MissingField(name))

\* PayloadKind with a missing companion field degraded to Unknown
PayloadKindLenient(raw, name, variant) ==
    IF raw[name] # None THEN Ok([tag |-> variant, val |-> raw[name][1]])
    ELSE Ok([tag |-> "Unknown", val |-> raw])

\* the two payload-carrying arms, lines 451-452
PayloadKind(raw, name, variant) ==
    LET r == required_field(raw, name)
    IN  IF r.ok THEN Ok([tag |-> variant, val |-> r.val]) ELSE r

\* EntityKind with the catch-all arm rejecting the tag
EntityKindStrict(raw) ==
    CASE raw.type_ = "mention" -> Ok([tag |-> "Mention"])
      [] raw.type_ = "hashtag" -> Ok([tag |-> "Hashtag"])
      [] raw.type_ = "bot_command" -> Ok([tag |-> "BotCommand"])
      [] raw.type_ = "url" -> Ok([tag |-> "Url"])
      [] raw.type_ = "email" -> Ok([tag |-> "Email"])
      [] raw.type_ = "bold" -> Ok([tag |-> "Bold"])
      [] raw.type_ = "italic" -> Ok([tag |-> "Italic"])
      [] raw.type_ = "code" -> Ok([tag |-> "Code"])
      [] raw.type_ = "pre" -> Ok([tag |-> "Pre"])
      [] raw.type_ = "text_link" -> PayloadKind(raw, "url", "TextLink")
      [] raw.type_ = "text_mention" -> PayloadKind(raw, "user", "TextMention")
      [] OTHER -> Err([kind |-> "unknown_variant", arg |-> raw.type_])

\* EntityKind matching the tag after trimming and lowercasing it
EntityKindNormalized(raw) ==
    CASE raw.type_ \in {"mention", "Mention", "mention "} -> Ok([tag |-> "Mention"])
      [] raw.type_ = "hashtag" -> Ok([tag |-> "Hashtag"])
      [] raw.type_ = "bot_command" -> Ok([tag |-> "BotCommand"])
      [] raw.type_ = "url" -> Ok([tag |-> "Url"])
      [] raw.type_ = "email" -> Ok([tag |-> "Email"])
      [] raw.type_ = "bold" -> Ok([tag |-> "Bold"])
      [] raw.type_ = "italic" -> Ok([tag |-> "Italic"])
      [] raw.type_ = "code" -> Ok([tag |-> "Code"])
      [] raw.type_ = "pre" -> Ok([tag |-> "Pre"])
      [] raw.type_ = "text_link" -> PayloadKind(raw, "url", "TextLink")
      [] raw.type_ = "text_mention" -> PayloadKind(raw, "user", "TextMention")
      [] OTHER -> Ok([tag |-> "Unknown", val |-> raw])

\* the match on raw.type_, lines 441-454
EntityKind(raw) ==
    CASE raw.type_ = "mention" -> Ok([tag |-> "Mention"])
      [] raw.type_ = "hashtag" -> Ok([tag |-> "Hashtag"])
      [] raw.type_ = "bot_command" -> Ok([tag |-> "BotCommand"])
      [] raw.type_ = "url" -> Ok([tag |-> "Url"])
      [] raw.type_ = "email" -> Ok([tag |-> "Email"])
      [] raw.type_ = "bold" -> Ok([tag |-> "Bold"])
      [] raw.type_ = "italic" -> Ok([tag |-> "Italic"])
      [] raw.type_ = "code" -> Ok([tag |-> "Code"])
      [] raw.type_ = "pre" -> Ok([tag |-> "Pre"])
      [] raw.type_ = "text_link" -> PayloadKind(raw, "url", "TextLink")
      [] raw.type_ = "text_mention" -> PayloadKind(raw, "user", "TextMention")
      [] OTHER -> Ok([tag |-> "Unknown", val |-> raw])

\* MessageEntity::deserialize, lines 421-462
DeserializeMessageEntity(raw) ==
    LET kind == EntityKind(raw)
    IN  IF kind.ok
        THEN Ok([offset |-> raw.offset, length |-> raw.length, kind |-> kind.val])
        ELSE kind

(***************************************************************************)
(* Message::deserialize                                                    *)
(***************************************************************************)

\* ForwardOf without the test for the Channel variant of the chat
ForwardOfAnyChat(raw) ==
    LET d == raw.forward_date
        u == raw.forward_from
        c == raw.forward_from_chat
        m == raw.forward_from_message_id
    IN  IF d = None /\ u = None /\ c = None /\ m = None
        THEN Ok(None)
        ELSE IF d # None /\ u # None /\ c = None /\ m = None
        THEN Ok(Some([date |-> d[1], from |-> [tag |-> "User", user |-> u[1]]]))
        ELSE IF d # None /\ u = None /\ c # None /\ m # None
        THEN Ok(Some([date |-> d[1],
                      from |-> [tag |-> "Channel", channel |-> c[1].val,
                                message_id |-> m[1]]]))
        ELSE Err(InvalidForward)

\* ForwardOf with every unmatched combination taken as "not forwarded"
ForwardOfLenient(raw) ==
    LET d == raw.forward_date
        u == raw.forward_from
        c == raw.forward_from_chat
        m == raw.forward_from_message_id
    IN  IF d # None /\ u # None /\ c = None /\ m = None
        THEN Ok(Some([date |-> d[1], from |-> [tag |-> "User", user |-> u[1]]]))
        ELSE IF d # None /\ u = None /\ c # None /\ m # None /\ c[1].tag = "Channel"
        THEN Ok(Some([date |-> d[1],
                      from |-> [tag |-> "Channel", channel |-> c[1].val,
                                message_id |-> m[1]]]))
        ELSE Ok(None)

\* the match on the four forward fields, lines 209-230
ForwardOf(raw) ==
    LET d == raw.forward_date
        u == raw.forward_from
        c == raw.forward_from_chat
        m == raw.forward_from_message_id
    IN  IF d = None /\ u = None /\ c = None /\ m = None
        THEN Ok(None)
        ELSE IF d # None /\ u # None /\ c = None /\ m = None
        THEN Ok(Some([date |-> d[1], from |-> [tag |-> "User", user |-> u[1]]]))
        ELSE IF d # None /\ u = None /\ c # None /\ m # None /\ c[1].tag = "Channel"
        THEN Ok(Some([date |-> d[1],
                      from |-> [tag |-> "Channel", channel |-> c[1].val,
                                message_id |-> m[1]]]))
        ELSE Err(InvalidForward)

\* make_message taking the date of the forward, when there is one, as the
\* message's date
make_messageForwardDate(raw, forward, kind) ==
    Ok([id |-> raw.message_id,
        from |-> raw.from,
        date |-> IF forward # None THEN forward[1].date ELSE raw.date,
        chat |-> raw.chat,
        forward |-> forward,
        reply_to_message |-> raw.reply_to_message,
        edit_date |-> raw.edit_date,
        kind |-> kind])

\* the closure make_message, lines 232-243
make_message(raw, forward, kind) ==
    Ok([id |-> raw.message_id,
        from |-> raw.from,
        date |-> raw.date,
        chat |-> raw.chat,
        forward |-> forward,
        reply_to_message |-> raw.reply_to_message,
        edit_date |-> raw.edit_date,
        kind |-> kind])

\* TextKind with the entities list dropped
TextKindNoEntities(raw) ==
    [tag |-> "Text", data |-> raw.text[1], entities |-> <<>>]

\* the text arm, lines 274-280
TextKind(raw) ==
    [tag |-> "Text",
     data |-> raw.text[1],
     entities |-> IF raw.entities # None THEN raw.entities[1] ELSE <<>>]

\* the macro invocations of lines 282-302, in source order
Steps ==
    << [name |-> "audio", variant |-> "Audio", macro |-> "maybe_field"],
       [name |-> "document", variant |-> "Document", macro |-> "maybe_field_with_caption"],
       [name |-> "photo", variant |-> "Photo", macro |-> "maybe_field_with_caption"],
       [name |-> "sticker", variant |-> "Sticker", macro |-> "maybe_field"],
       [name |-> "video", variant |-> "Video", macro |-> "maybe_field_with_caption"],
       [name |-> "voice", variant |-> "Voice", macro |-> "maybe_field"],
       [name |-> "contact", variant |-> "Contact", macro |-> "maybe_field"],
       [name |-> "location", variant |-> "Location", macro |-> "maybe_field"],
       [name |-> "venue", variant |-> "Venue", macro |-> "maybe_field"],
       [name |-> "new_chat_member", variant |-> "NewChatMember", macro |-> "maybe_field"],
       [name |-> "left_chat_member", variant |-> "LeftChatMember", macro |-> "maybe_field"],
       [name |-> "new_chat_title", variant |-> "NewChatTitle", macro |-> "maybe_field"],
       [name |-> "new_chat_photo", variant |-> "NewChatPhoto", macro |-> "maybe_field"],
       [name |-> "delete_chat_photo", variant |-> "DeleteChatPhoto", macro |-> "maybe_true_field"],
       [name |-> "delete_chat_photo", variant |-> "DeleteChatPhoto", macro |-> "maybe_true_field"],
       [name |-> "group_chat_created", variant |-> "GroupChatCreated", macro |-> "maybe_true_field"],
       [name |-> "supergroup_chat_created", variant |-> "SupergroupChatCreated", macro |-> "maybe_true_field"],
       [name |-> "channel_chat_created", variant |-> "ChannelChatCreated", macro |-> "maybe_true_field"],
       [name |-> "migrate_to_chat_id", variant |-> "MigrateToChatId", macro |-> "maybe_field"],
       [name |-> "migrate_from_chat_id", variant |-> "MigrateFromChatId", macro |-> "maybe_field"],
       [name |-> "pinned_message", variant |-> "PinnedMessage", macro |-> "maybe_field"] >>

\* MacroKind with maybe_field_with_caption leaving the caption out
MacroKindNoCaption(raw, step) ==
    CASE step.macro = "maybe_field" ->
            [tag |-> step.variant, data |-> raw[step.name][1]]
      [] step.macro = "maybe_field_with_caption" ->
            [tag |-> step.variant, data |-> raw[step.name][1], caption |-> None]
      [] step.macro = "maybe_true_field" ->
            [tag |-> step.variant]

\* MacroKind with maybe_field attaching the caption as
\* maybe_field_with_caption does
MacroKindAllCaption(raw, step) ==
    CASE step.macro \in {"maybe_field", "maybe_field_with_caption"} ->
            [tag |-> step.variant, data |-> raw[step.name][1], caption |-> raw.caption]
      [] step.macro = "maybe_true_field" ->
            [tag |-> step.variant]

\* the MessageKind one macro builds once its field is Some, lines 245-272
MacroKind(raw, step) ==
    CASE step.macro = "maybe_field" ->
            [tag |-> step.variant, data |-> raw[step.name][1]]
      [] step.macro = "maybe_field_with_caption" ->
            [tag |-> step.variant, data |-> raw[step.name][1], caption |-> raw.caption]
      [] step.macro = "maybe_true_field" ->
            [tag |-> step.variant]

\* UnknownKind keeping the record without its caption
UnknownKindNoCaption(raw) == [tag |-> "Unknown", raw |-> [raw EXCEPT !.caption = None]]

\* the fallback of line 304
UnknownKind(raw) == [tag |-> "Unknown", raw |-> raw]

\* Scan falling back to an empty text message instead of Unknown
RECURSIVE ScanDefaultText(_, _)
ScanDefaultText(raw, i) ==
    IF i > Len(Steps) THEN [tag |-> "Text", data |-> "", entities |-> <<>>]
    ELSE IF raw[Steps[i].name] # None THEN MacroKind(raw, Steps[i])
    ELSE ScanDefaultText(raw, i + 1)

\* lines 282-304: the first macro whose field is Some returns; else Unknown
RECURSIVE Scan(_, _)
Scan(raw, i) ==
    IF i > Len(Steps) THEN UnknownKind(raw)
    ELSE IF raw[Steps[i].name] # None THEN MacroKind(raw, Steps[i])
    ELSE Scan(raw, i + 1)

\* Classify with the text arm placed after the macros instead of before
ClassifyTextLast(raw) ==
    LET k == Scan(raw, 1)
    IN  IF k.tag = "Unknown" /\ raw.text # None THEN TextKind(raw) ELSE k

\* lines 274-304: the kind chosen for a flat record
Classify(raw) ==
    IF raw.text # None THEN TextKind(raw) ELSE Scan(raw, 1)

\* MessageFromRaw tolerating an illegal forward combination as "not forwarded"
MessageFromRawTolerant(raw) ==
    LET forward == ForwardOf(raw)
    IN  IF ~forward.ok THEN make_message(raw, None, Classify(raw))
        ELSE make_message(raw, forward.val, Classify(raw))

\* lines 202-304: everything after the flat record has been decoded
MessageFromRaw(raw) ==
    LET forward == ForwardOf(raw)
    IN  IF ~forward.ok THEN forward
        ELSE make_message(raw, forward.val, Classify(raw))

\* the fields of RawMessage in declaration order, lines 312-388
FieldOrder ==
    << "message_id", "from", "date", "chat",
       "forward_from", "forward_from_chat", "forward_from_message_id", "forward_date",
       "reply_to_message", "edit_date", "text", "entities",
       "audio", "document", "photo", "sticker", "video", "voice", "caption",
       "contact", "location", "venue",
       "new_chat_member", "left_chat_member", "new_chat_title", "new_chat_photo",
       "delete_chat_photo", "group_chat_created", "supergroup_chat_created",
       "channel_chat_created", "migrate_to_chat_id", "migrate_from_chat_id",
       "pinned_message" >>

FieldNames == {FieldOrder[i] : i \in 1..Len(FieldOrder)}

\* the fields of RawMessage that are not Option
RequiredFields == {"message_id", "date", "chat"}

\* Option<Vec<MessageEntity>> of RawMessage.entities, line 336: each element
\* goes through MessageEntity::deserialize, the first failure aborts
DeserializeEntities(o) ==
    IF o = None THEN Ok(None)
    ELSE LET rs == [i \in 1..Len(o[1]) |-> DeserializeMessageEntity(o[1][i])]
             bad == {i \in 1..Len(o[1]) : ~rs[i].ok}
         IN  IF bad # {}
             THEN rs[CHOOSE i \in bad : \A j \in bad : i <= j]
             ELSE Ok(Some([i \in 1..Len(o[1]) |-> rs[i].val]))

RECURSIVE DeserializeMessage(_)
RECURSIVE DeserializeBoxedMessage(_)
RECURSIVE DeserializeRawMessage(_)

\* Option<Box<Message>> of RawMessage.reply_to_message / pinned_message,
\* lines 329 and 388: the nested record goes through Message::deserialize
DeserializeBoxedMessage(o) ==
    IF o = None THEN Ok(None)
    ELSE LET r == DeserializeMessage(o[1])
         IN  IF r.ok THEN Ok(Some(r.val)) ELSE r

\* #[derive(Deserialize)] of RawMessage, lines 309-389 (called at line 200).
\* A wire message w lists its keys in w.keys, in the order they are written,
\* and gives their values in w.fields.  The decoder visits the keys in that
\* order and stops at the first one that fails: a key it does not know is
\* skipped, a key of the record seen a second time is an error, the three
\* nested fields are decoded by their own deserializers, any other value is
\* taken as it is.  Once the keys are exhausted a field that was not written
\* is None, or an error when the field is not an Option.
DeserializeRawMessage(w) ==
    LET n == Len(w.keys)
        written == {w.keys[i] : i \in 1..n}
        reply == DeserializeBoxedMessage(w.fields.reply_to_message)
        ents == DeserializeEntities(w.fields.entities)
        pinned == DeserializeBoxedMessage(w.fields.pinned_message)
        decoded(k) ==
            IF k = "reply_to_message" THEN reply
            ELSE IF k = "entities" THEN ents
            ELSE IF k = "pinned_message" THEN pinned
            ELSE Ok(w.fields[k])
        repeated(i) == \E j \in 1..(i - 1) : w.keys[j] = w.keys[i]
        visit(i) ==
            IF w.keys[i] \notin FieldNames THEN Ok(None)
            ELSE IF repeated(i) THEN Err(DuplicateField(w.keys[i]))
            ELSE decoded(w.keys[i])
        bad == {i \in 1..n : ~visit(i).ok}
        missing == RequiredFields \ written
    IN  IF bad # {}
        THEN visit(CHOOSE i \in bad : \A j \in bad : i <= j)
        ELSE IF missing # {}
        THEN Err(MissingField(FieldOrder[
                 CHOOSE i \in 1..Len(FieldOrder) :
                    /\ FieldOrder[i] \in missing
                    /\ \A j \in 1..(i - 1) : FieldOrder[j] \notin missing]))
        ELSE Ok([f \in FieldNames |->
                    IF f \in written THEN decoded(f).val ELSE None])

\* Message::deserialize, lines 195-306
DeserializeMessage(w) ==
    LET raw == DeserializeRawMessage(w)
    IN  IF ~raw.ok THEN raw ELSE MessageFromRaw(raw.val)

(***************************************************************************)
(* The wire records the deserializers are applied to                       *)
(***************************************************************************)

\* the content/event fields of RawMessage, the ones lines 274-302 test
SlotFields == {"text"} \cup {Steps[i].name : i \in 1..Len(Steps)}

\* the four forward fields matched at lines 209-212
ForwardFields ==
    {"forward_date", "forward_from", "forward_from_chat", "forward_from_message_id"}

\* values of the Chat enum; its Channel variant is the one line 220 matches
GroupChat == [tag |-> "Group", val |-> "groupG"]
ChannelChat == [tag |-> "Channel", val |-> "channelX"]

\* the values of a wire message with every optional field absent
EmptyWire(id) ==
    [f \in FieldNames |->
        CASE f = "message_id" -> id
          [] f = "date" -> 100
          [] f = "chat" -> GroupChat
          [] OTHER -> None]

\* wire entity records used inside messages
BoldEntity ==
    [type_ |-> "bold", offset |-> 0, length |-> 2, url |-> None, user |-> None]
LinkEntity ==
    [type_ |-> "text_link", offset |-> 3, length |-> 4,
     url |-> Some("https://x"), user |-> None]
\* a text_link without its url, which line 451 rejects
BadLinkEntity ==
    [type_ |-> "text_link", offset |-> 0, length |-> 2, url |-> None, user |-> None]

\* the three fields of RawMessage decoded by a deserializer of this file,
\* lines 329, 336 and 388
NestedFields == {"reply_to_message", "entities", "pinned_message"}

\* a wire message: its keys in the order they are written, and their values
WireMessage(fields, keys) == [keys |-> keys, fields |-> fields]

\* the keys of the fields that are present, in declaration order
DeclaredKeys(fields) ==
    SelectSeq(FieldOrder, LAMBDA f : f \in RequiredFields \/ fields[f] # None)

\* the wire message that writes the present fields in declaration order
InDeclaredOrder(fields) == WireMessage(fields, DeclaredKeys(fields))

\* the key orders of the generated wire messages: declaration order, with the
\* keys of the nested fields taking each other's places in every way (the
\* other values are opaque and decode the same wherever they are written)
KeyOrders(fields) ==
    LET d == DeclaredKeys(fields)
        at == SelectSeq([i \in 1..Len(d) |-> i], LAMBDA i : d[i] \in NestedFields)
        m == Len(at)
    IN  IF m <= 1 THEN {d}
        ELSE {[i \in 1..Len(d) |->
                  IF d[i] \in NestedFields
                  THEN d[at[p[CHOOSE r \in 1..m : at[r] = i]]]
                  ELSE d[i]] : p \in Permutations(1..m)}

\* nested wire messages: a reply target, a reply target that itself carries a
\* reply target, a reply target with a partial forward, a pinned message
ReplyPlain == InDeclaredOrder([EmptyWire(2) EXCEPT !.text = Some("quoted")])
ReplyOlder == InDeclaredOrder([EmptyWire(3) EXCEPT !.text = Some("older")])
ReplyNested ==
    InDeclaredOrder([EmptyWire(2) EXCEPT !.text = Some("quoted"),
                                         !.reply_to_message = Some(ReplyOlder)])
ReplyBadForward ==
    InDeclaredOrder([EmptyWire(2) EXCEPT !.text = Some("quoted"),
                                         !.forward_date = Some(1000)])
PinnedPlain == InDeclaredOrder([EmptyWire(4) EXCEPT !.text = Some("pinned")])

\* the values an optional field takes when it is present
FieldValues(f) ==
    CASE f = "from" -> {"userA"}
      [] f = "forward_from" -> {"userB"}
      [] f = "forward_from_chat" -> {GroupChat, ChannelChat}
      [] f = "forward_from_message_id" -> {42}
      [] f = "forward_date" -> {1000}
      [] f = "reply_to_message" -> {ReplyPlain, ReplyNested, ReplyBadForward}
      [] f = "edit_date" -> {200}
      [] f = "text" -> {"hello"}
      [] f = "entities" -> {<<>>, <<BoldEntity, LinkEntity>>, <<BadLinkEntity>>}
      [] f = "audio" -> {"audioA"}
      [] f = "document" -> {"documentA"}
      [] f = "photo" -> {<<"photoSmall", "photoLarge">>}
      [] f = "sticker" -> {"stickerA"}
      [] f = "video" -> {"videoA"}
      [] f = "voice" -> {"voiceA"}
      [] f = "caption" -> {"a caption"}
      [] f = "contact" -> {"contactA"}
      [] f = "location" -> {"locationA"}
      [] f = "venue" -> {"venueA"}
      [] f = "new_chat_member" -> {"userC"}
      [] f = "left_chat_member" -> {"userD"}
      [] f = "new_chat_title" -> {"a title"}
      [] f = "new_chat_photo" -> {"photoNew"}
      [] f = "delete_chat_photo" -> {TRUE}
      [] f = "group_chat_created" -> {TRUE}
      [] f = "supergroup_chat_created" -> {TRUE}
      [] f = "channel_chat_created" -> {TRUE}
      [] f = "migrate_to_chat_id" -> {2001}
      [] f = "migrate_from_chat_id" -> {3001}
      [] f = "pinned_message" -> {PinnedPlain}

\* how many optional fields a generated wire message has present, at most
MaxPresent == 4

\* the content/event fields in declaration order
SlotOrder == SelectSeq(FieldOrder, LAMBDA f : f \in SlotFields)

\* the optional fields that are neither forward fields nor content/event fields
EnvelopeFields == {"from", "reply_to_message", "edit_date", "entities", "caption"}

\* absent, or present with one of the field's values
OptionsOf(f) == {None} \cup {Some(v) : v \in FieldValues(f)}

\* every presence/absence combination of the four forward fields
ForwardCombos ==
    [forward_from : OptionsOf("forward_from"),
     forward_from_chat : OptionsOf("forward_from_chat"),
     forward_from_message_id : OptionsOf("forward_from_message_id"),
     forward_date : OptionsOf("forward_date")]

EnvelopeCombos ==
    [from : OptionsOf("from"),
     reply_to_message : OptionsOf("reply_to_message"),
     edit_date : OptionsOf("edit_date"),
     entities : OptionsOf("entities"),
     caption : OptionsOf("caption")]

\* how many fields of a combination are present
Present(r) == Cardinality({f \in DOMAIN r : r[f] # None})

\* the sets of at most k of the content/event fields i.. of SlotOrder
RECURSIVE SlotSetsFrom(_, _)
SlotSetsFrom(i, k) ==
    IF i > Len(SlotOrder) \/ k = 0 THEN {{}}
    ELSE SlotSetsFrom(i + 1, k)
         \cup {{SlotOrder[i]} \cup T : T \in SlotSetsFrom(i + 1, k - 1)}

SlotSets == [k \in 0..MaxPresent |-> SlotSetsFrom(1, k)]

\* the values of the wire message with the given forward and envelope fields
\* and the content/event fields of `slots` present
MkWire(fw, env, slots) ==
    [f \in FieldNames |->
        IF f \in RequiredFields THEN EmptyWire(1)[f]
        ELSE IF f \in ForwardFields THEN fw[f]
        ELSE IF f \in EnvelopeFields THEN env[f]
        ELSE IF f \in slots THEN Some(CHOOSE v \in FieldValues(f) : TRUE)
        ELSE None]

\* type tags of wire entities: the ones lines 442-452 match, and others
EntityTags ==
    {"mention", "hashtag", "bot_command", "url", "email", "bold", "italic",
     "code", "pre", "text_link", "text_mention",
     "sticker_pack_name", "Mention", "mention ", "text_links", "spoiler", ""}

WireEntities ==
    [type_ : EntityTags, offset : {0, 3}, length : {1, 2},
     url : {None, Some("https://x")}, user : {None, Some("userE")}]

(***************************************************************************)
(* The state machine                                                       *)
(***************************************************************************)

Init ==
    /\ msgRaw = None
    /\ msgOut = None
    /\ entOut = None
    /\ \/ /\ pc = "message"
          /\ entRaw = None
          /\ \E fw \in ForwardCombos, env \in EnvelopeCombos :
                /\ Present(fw) + Present(env) <= MaxPresent
                /\ \E slots \in SlotSets[MaxPresent - Present(fw) - Present(env)] :
                      LET fields == MkWire(fw, env, slots)
                      IN  \E keys \in KeyOrders(fields) :
                             msgWire = Some(WireMessage(fields, keys))
       \/ /\ pc = "entity"
          /\ msgWire = None
          /\ entRaw \in {Some(e) : e \in WireEntities}

\* one call of Message::deserialize, lines 195-306
DecodeMessage ==
    /\ pc = "message"
    /\ msgRaw' = Some(DeserializeRawMessage(msgWire[1]))
    /\ msgOut' = Some(DeserializeMessage(msgWire[1]))
    /\ pc' = "done"
    /\ UNCHANGED <<msgWire, entRaw, entOut>>

\* one call of MessageEntity::deserialize, lines 421-462
DecodeEntity ==
    /\ pc = "entity"
    /\ entOut' = Some(DeserializeMessageEntity(entRaw[1]))
    /\ pc' = "done"
    /\ UNCHANGED <<msgWire, msgRaw, msgOut, entRaw>>

Next == DecodeMessage \/ DecodeEntity

Spec == Init /\ [][Next]_vars

(***************************************************************************)
(* Vocabulary of the properties                                            *)
(***************************************************************************)

\* Message::deserialize has returned
MsgDone == pc = "done" /\ msgOut # None
\* ... and line 200 had produced a flat record
FlatOk == MsgDone /\ msgRaw[1].ok
\* the flat record of line 200, and what the call returned
Flat == msgRaw[1].val
Out == msgOut[1]

\* MessageEntity::deserialize has returned
EntDone == pc = "done" /\ entOut # None
EntIn == entRaw[1]
EntRes == entOut[1]

\* the content/event slots a flat record has populated
Populated(raw) == {f \in SlotFields : raw[f] # None}

\* the priority order of the documentation: slot, variant, and what the
\* variant carries
Priority ==
    << <<"text", "Text", "text">>,
       <<"audio", "Audio", "data">>,
       <<"document", "Document", "caption">>,
       <<"photo", "Photo", "caption">>,
       <<"sticker", "Sticker", "data">>,
       <<"video", "Video", "caption">>,
       <<"voice", "Voice", "data">>,
       <<"contact", "Contact", "data">>,
       <<"location", "Location", "data">>,
       <<"venue", "Venue", "data">>,
       <<"new_chat_member", "NewChatMember", "data">>,
       <<"left_chat_member", "LeftChatMember", "data">>,
       <<"new_chat_title", "NewChatTitle", "data">>,
       <<"new_chat_photo", "NewChatPhoto", "data">>,
       <<"delete_chat_photo", "DeleteChatPhoto", "unit">>,
       <<"group_chat_created", "GroupChatCreated", "unit">>,
       <<"supergroup_chat_created", "SupergroupChatCreated", "unit">>,
       <<"channel_chat_created", "ChannelChatCreated", "unit">>,
       <<"migrate_to_chat_id", "MigrateToChatId", "data">>,
       <<"migrate_from_chat_id", "MigrateFromChatId", "data">>,
       <<"pinned_message", "PinnedMessage", "data">> >>

\* the entry of the first populated slot in the documented order
FirstPopulated(raw) ==
    Priority[CHOOSE i \in 1..Len(Priority) :
                /\ raw[Priority[i][1]] # None
                /\ \A j \in 1..(i - 1) : raw[Priority[j][1]] = None]

\* the three legal shapes of the four forward fields
NotForwarded(raw) ==
    /\ raw.forward_date = None /\ raw.forward_from = None
    /\ raw.forward_from_chat = None /\ raw.forward_from_message_id = None
ForwardedFromUser(raw) ==
    /\ raw.forward_date # None /\ raw.forward_from # None
    /\ raw.forward_from_chat = None /\ raw.forward_from_message_id = None
ForwardedFromChannel(raw) ==
    /\ raw.forward_date # None /\ raw.forward_from = None
    /\ raw.forward_from_chat # None /\ raw.forward_from_message_id # None
    /\ raw.forward_from_chat[1].tag = "Channel"
LegalForward(raw) ==
    NotForwarded(raw) \/ ForwardedFromUser(raw) \/ ForwardedFromChannel(raw)

\* the decode failed with the forward error
FailedInvalidForward == ~Out.ok /\ Out.val = InvalidForward

(***************************************************************************)
(* Claims                                                                  *)
(***************************************************************************)

\* C1: whenever decoding succeeds and at least one content/event slot is
\* populated, the kind is the variant of the first populated slot in the
\* order text, audio, document, photo, sticker, video, voice, contact,
\* location, venue, new-member, left-member, new-title, new-photo,
\* photo-deleted, group-created, supergroup-created, channel-created,
\* migrate-to, migrate-from, pinned-message.
C1_PriorityOrder ==
    (FlatOk /\ Out.ok /\ Populated(Flat) # {})
        => Out.val.kind.tag = FirstPopulated(Flat)[2]

\* several slots populated, none of them text, and the earliest one won
C1_Witness ==
    /\ FlatOk /\ Out.ok
    /\ Cardinality(Populated(Flat)) >= 2
    /\ "text" \notin Populated(Flat)
    /\ "pinned_message" \in Populated(Flat)
    /\ Out.val.kind.tag = FirstPopulated(Flat)[2]

\* C2: forward reconstruction is an exhaustive match on the four forward
\* fields: none present gives no Forward; date+user alone gives a User
\* forward; date+channel chat+message id without user gives a Channel
\* forward; everything else fails with the invalid-forward error.
C2_ForwardCases ==
    FlatOk =>
        /\ NotForwarded(Flat) => (Out.ok /\ Out.val.forward = None)
        /\ ForwardedFromUser(Flat) =>
              /\ Out.ok
              /\ Out.val.forward =
                    Some([date |-> Flat.forward_date[1],
                          from |-> [tag |-> "User", user |-> Flat.forward_from[1]]])
        /\ ForwardedFromChannel(Flat) =>
              /\ Out.ok
              /\ Out.val.forward =
                    Some([date |-> Flat.forward_date[1],
                          from |-> [tag |-> "Channel",
                                    channel |-> Flat.forward_from_chat[1].val,
                                    message_id |-> Flat.forward_from_message_id[1]]])
        /\ ~LegalForward(Flat) => FailedInvalidForward

\* date, chat and message id present with a chat that is not a channel: rejected
C2_Witness ==
    /\ FlatOk
    /\ Flat.forward_date # None /\ Flat.forward_from = None
    /\ Flat.forward_from_message_id # None
    /\ Flat.forward_from_chat = Some(GroupChat)
    /\ FailedInvalidForward

\* C3 as stated: a flat record with no content/event slot populated always
\* decodes, to Unknown carrying the flat record.
C3_AlwaysUnknown ==
    (FlatOk /\ Populated(Flat) = {})
        => (Out.ok /\ Out.val.kind.tag = "Unknown" /\ Out.val.kind.raw = Flat)

\* C3 amended: a flat record with no content/event slot populated and its
\* forward fields in a legal shape decodes to Unknown carrying the flat record.
C3_UnknownWhenForwardLegal ==
    (FlatOk /\ Populated(Flat) = {} /\ LegalForward(Flat))
        => (Out.ok /\ Out.val.kind.tag = "Unknown" /\ Out.val.kind.raw = Flat)

\* no slot populated, forwarded from a channel, decoded to Unknown
C3_Witness ==
    /\ FlatOk /\ Populated(Flat) = {} /\ ForwardedFromChannel(Flat)
    /\ Out.ok /\ Out.val.kind.tag = "Unknown" /\ Out.val.kind.raw = Flat

\* the Message has the kind of the one populated slot of the flat record,
\* carrying the slot's payload, and for document, photo and video the flat
\* record's caption, present or absent
KindOfSingleSlot(raw, message) ==
    LET p == FirstPopulated(raw)
        k == message.kind
    IN  /\ k.tag = p[2]
        /\ p[3] = "text" => k.data = raw.text[1]
        /\ p[3] \in {"data", "caption"} => k.data = raw[p[1]][1]
        /\ p[3] = "caption" => k.caption = raw.caption
        /\ p[3] = "unit" => DOMAIN k = {"tag"}

\* C4 as stated: a flat record with exactly one content/event slot populated
\* always decodes, to a Message that has the kind of that slot, carrying the
\* slot's payload, and for document, photo and video the flat record's caption.
C4_SingleSlotAlways ==
    (FlatOk /\ Cardinality(Populated(Flat)) = 1)
        => (Out.ok /\ KindOfSingleSlot(Flat, Out.val))

\* C4 amended: a flat record with exactly one content/event slot populated and
\* its forward fields in a legal shape decodes to a Message that has the kind
\* of that slot, carrying the slot's payload, and for document, photo and
\* video the flat record's caption, present or absent; with the forward fields
\* in any other combination the call fails with the invalid-forward error.
C4_SingleSlotWhenForwardLegal ==
    (FlatOk /\ Cardinality(Populated(Flat)) = 1) =>
        /\ LegalForward(Flat) => (Out.ok /\ KindOfSingleSlot(Flat, Out.val))
        /\ ~LegalForward(Flat) => (~Out.ok /\ Out.val = InvalidForward)

\* a photo with a caption and nothing else, forwarded from a user
C4_Witness ==
    /\ FlatOk /\ Out.ok
    /\ Populated(Flat) = {"photo"}
    /\ Flat.caption # None
    /\ ForwardedFromUser(Flat)
    /\ Out.val.kind = [tag |-> "Photo", data |-> Flat.photo[1], caption |-> Flat.caption]

\* C5: text_link with a url yields TextLink(url) and without one fails with
\* missing field "url"; text_mention with a user yields TextMention(user) and
\* without one fails with missing field "user"; a failure yields no entity.
C5_RequiredCompanion ==
    EntDone =>
        /\ (EntIn.type_ = "text_link" /\ EntIn.url # None) =>
              (EntRes.ok /\ EntRes.val.kind.tag = "TextLink"
                         /\ EntRes.val.kind.val = EntIn.url[1])
        /\ (EntIn.type_ = "text_link" /\ EntIn.url = None) =>
              (~EntRes.ok /\ EntRes.val = MissingField("url"))
        /\ (EntIn.type_ = "text_mention" /\ EntIn.user # None) =>
              (EntRes.ok /\ EntRes.val.kind.tag = "TextMention"
                         /\ EntRes.val.kind.val = EntIn.user[1])
        /\ (EntIn.type_ = "text_mention" /\ EntIn.user = None) =>
              (~EntRes.ok /\ EntRes.val = MissingField("user"))

\* a text_mention that has a url but no user is rejected
C5_Witness ==
    /\ EntDone
    /\ EntIn.type_ = "text_mention" /\ EntIn.user = None /\ EntIn.url # None
    /\ ~EntRes.ok /\ EntRes.val = MissingField("user")

\* the type tags MessageEntity::deserialize recognizes
RecognizedTags ==
    {"mention", "hashtag", "bot_command", "url", "email", "bold", "italic",
     "code", "pre", "text_link", "text_mention"}

\* C6: an entity whose type tag is not a recognized one decodes successfully
\* to Unknown carrying the flat entity record unchanged (tag, offset, length,
\* url, user), whether or not url and user are present.
C6_UnknownEntity ==
    (EntDone /\ EntIn.type_ \notin RecognizedTags) =>
        /\ EntRes.ok
        /\ EntRes.val.kind.tag = "Unknown"
        /\ EntRes.val.kind.val = EntIn
        /\ EntRes.val.offset = EntIn.offset
        /\ EntRes.val.length = EntIn.length

\* an unrecognized tag with url and user present
C6_Witness ==
    /\ EntDone
    /\ EntIn.type_ = "sticker_pack_name" /\ EntIn.url # None /\ EntIn.user # None
    /\ EntRes.ok /\ EntRes.val.kind.tag = "Unknown" /\ EntRes.val.kind.val = EntIn

\* C7: in every Message that is produced with a reply target, the reply
\* target carries no reply target of its own.
C7_ReplyDepthOne ==
    (MsgDone /\ Out.ok /\ Out.val.reply_to_message # None)
        => Out.val.reply_to_message[1].reply_to_message = None

\* C8: when the text slot is populated and decoding succeeds, the kind is
\* Text with the flat record's entities in order, or the empty sequence when
\* the flat record has no entities field.
C8_TextEntities ==
    (FlatOk /\ Out.ok /\ Flat.text # None) =>
        /\ Out.val.kind.tag = "Text"
        /\ Out.val.kind.data = Flat.text[1]
        /\ Flat.entities # None => Out.val.kind.entities = Flat.entities[1]
        /\ Flat.entities = None => Out.val.kind.entities = <<>>

\* a text message with two entities, kept in order
C8_Witness ==
    /\ FlatOk /\ Out.ok /\ Flat.text # None
    /\ Flat.entities # None /\ Len(Flat.entities[1]) = 2
    /\ Flat.entities[1][1] # Flat.entities[1][2]
    /\ Out.val.kind.entities = Flat.entities[1]

\* C9: when the kind is Unknown, the record it carries equals the flat record
\* on every field, and classifying that record again gives Unknown again.
C9_UnknownRoundTrip ==
    (FlatOk /\ Out.ok /\ Out.val.kind.tag = "Unknown") =>
        /\ DOMAIN Out.val.kind.raw = FieldNames
        /\ \A f \in FieldNames : Out.val.kind.raw[f] = Flat[f]
        /\ Classify(Out.val.kind.raw).tag = "Unknown"
        /\ MessageFromRaw(Out.val.kind.raw) = Out

\* an Unknown message that has a caption, entities and a forwarding user
C9_Witness ==
    /\ FlatOk /\ Out.ok /\ Out.val.kind.tag = "Unknown"
    /\ Flat.caption # None /\ Flat.entities # None
    /\ Flat.forward_date # None /\ Flat.forward_from # None
    /\ Out.val.kind.raw = Flat

\* C10: a flat record is rejected exactly when its forward fields are in no
\* legal shape, whatever content/event slots are populated: the failure is the
\* invalid-forward error, and a legal shape always yields a Message.
C10_FailsIffIllegalForward ==
    FlatOk =>
        /\ Out.ok <=> LegalForward(Flat)
        /\ ~Out.ok => Out.val = InvalidForward

\* an illegal forward combination rejects a record with two slots populated
C10_Witness ==
    /\ FlatOk /\ ~LegalForward(Flat)
    /\ Cardinality(Populated(Flat)) >= 2
    /\ FailedInvalidForward

\* at least one of the four forward fields is present
AnyForwardField(raw) == \E f \in ForwardFields : raw[f] # None

\* C11: a decoded Message has a Forward exactly when at least one of the four
\* forward fields of the flat record is present; the Forward's date is
\* forward_date and its origin is either User{user} or Channel{channel,
\* message_id}, built from the record's own values; a record with forward
\* fields present in no legal shape yields no Message, so no Forward.
C11_ForwardExistence ==
    FlatOk =>
        /\ Out.ok => (Out.val.forward # None <=> AnyForwardField(Flat))
        /\ (Out.ok /\ Out.val.forward # None) =>
              LET fwd == Out.val.forward[1]
              IN  /\ DOMAIN fwd = {"date", "from"}
                  /\ Flat.forward_date # None
                  /\ fwd.date = Flat.forward_date[1]
                  /\ \/ /\ ForwardedFromUser(Flat)
                        /\ DOMAIN fwd.from = {"tag", "user"}
                        /\ fwd.from.tag = "User"
                        /\ fwd.from.user = Flat.forward_from[1]
                     \/ /\ ForwardedFromChannel(Flat)
                        /\ DOMAIN fwd.from = {"tag", "channel", "message_id"}
                        /\ fwd.from.tag = "Channel"
                        /\ fwd.from.channel = Flat.forward_from_chat[1].val
                        /\ fwd.from.message_id = Flat.forward_from_message_id[1]
        /\ (AnyForwardField(Flat) /\ ~LegalForward(Flat)) => ~Out.ok

\* a message forwarded from a channel, with a content slot populated
C11_Witness ==
    /\ FlatOk /\ Out.ok
    /\ ForwardedFromChannel(Flat)
    /\ Populated(Flat) # {}
    /\ Out.val.forward # None
    /\ Out.val.forward[1].from.tag = "Channel"
    /\ Out.val.forward[1].date = Flat.forward_date[1]

\* the tags documented for RawMessageEntity::type_ that carry no payload, with
\* their variants
NoPayloadTable ==
    << <<"mention", "Mention">>, <<"hashtag", "Hashtag">>,
       <<"bot_command", "BotCommand">>, <<"url", "Url">>, <<"email", "Email">>,
       <<"bold", "Bold">>, <<"italic", "Italic">>, <<"code", "Code">>,
       <<"pre", "Pre">> >>

\* a decode result that is a variant without payload
IsNoPayload(res) == res.ok /\ DOMAIN res.val.kind = {"tag"}

\* the tags for which the entity at hand, given that tag, decodes to a variant
\* without payload
NoPayloadTags ==
    {t \in EntityTags :
        IsNoPayload(DeserializeMessageEntity([EntIn EXCEPT !.type_ = t]))}

\* C12 as stated: ten distinct tag strings map to no-payload variants.
C12_TenNoPayloadTags ==
    EntDone => Cardinality(NoPayloadTags) = 10

\* C12 amended: nine distinct tag strings (mention, hashtag, bot_command, url,
\* email, bold, italic, code, pre) map to no-payload variants by exact match;
\* each decodes to its variant whether or not url and user are present, and a
\* tag differing from them in any character maps to no no-payload variant.
C12_NineNoPayloadTags ==
    EntDone =>
        /\ Cardinality(NoPayloadTags) = Len(NoPayloadTable)
        /\ Len(NoPayloadTable) = 9
        /\ \A i \in 1..Len(NoPayloadTable) :
              EntIn.type_ = NoPayloadTable[i][1] =>
                 /\ EntRes.ok
                 /\ EntRes.val.kind = [tag |-> NoPayloadTable[i][2]]
                 /\ EntRes.val.offset = EntIn.offset
                 /\ EntRes.val.length = EntIn.length
        /\ (\A i \in 1..Len(NoPayloadTable) : EntIn.type_ # NoPayloadTable[i][1])
              => ~IsNoPayload(EntRes)

\* a bold entity that has a url and a user decodes to Bold
C12_Witness ==
    /\ EntDone
    /\ EntIn.type_ = "bold" /\ EntIn.url # None /\ EntIn.user # None
    /\ EntRes.ok /\ EntRes.val.kind = [tag |-> "Bold"]

\* C13: in every decoded Message the identifier, sender, timestamp,
\* conversation, reply target and edit timestamp are the flat record's
\* message_id, from, date, chat, reply_to_message and edit_date, whatever kind
\* was chosen and whatever the forward fields hold.
C13_EnvelopePreserved ==
    (FlatOk /\ Out.ok) =>
        /\ DOMAIN Out.val = {"id", "from", "date", "chat", "forward",
                             "reply_to_message", "edit_date", "kind"}
        /\ Out.val.id = Flat.message_id
        /\ Out.val.from = Flat.from
        /\ Out.val.date = Flat.date
        /\ Out.val.chat = Flat.chat
        /\ Out.val.reply_to_message = Flat.reply_to_message
        /\ Out.val.edit_date = Flat.edit_date

\* a forwarded, edited message of a content kind keeps its own date
C13_Witness ==
    /\ FlatOk /\ Out.ok
    /\ ForwardedFromUser(Flat)
    /\ Flat.edit_date # None
    /\ Populated(Flat) # {}
    /\ Out.val.kind.tag # "Unknown"
    /\ Out.val.date = Flat.date
    /\ Out.val.date # Flat.forward_date[1]
    /\ Out.val.edit_date = Flat.edit_date

\* C14: the caption reaches a decoded Message only inside a Document, Photo
\* or Video kind or inside Unknown's record: when another slot wins, the
\* Message has no caption field and is the Message the same record without
\* its caption decodes to; a record with no content/event slot populated
\* (caption alone, or entities without text) is Unknown and keeps both.
C14_CaptionConfined ==
    (FlatOk /\ Out.ok) =>
        /\ "caption" \in DOMAIN Out.val.kind
              => Out.val.kind.tag \in {"Document", "Photo", "Video"}
        /\ (Populated(Flat) # {} /\ FirstPopulated(Flat)[3] # "caption") =>
              /\ "caption" \notin DOMAIN Out.val.kind
              /\ Out = MessageFromRaw([Flat EXCEPT !.caption = None])
        /\ Populated(Flat) = {} =>
              /\ Out.val.kind.tag = "Unknown"
              /\ Out.val.kind.raw.caption = Flat.caption
              /\ Out.val.kind.raw.entities = Flat.entities

\* a sticker sent with a caption: the Sticker kind carries none
C14_Witness ==
    /\ FlatOk /\ Out.ok
    /\ Flat.caption # None
    /\ Populated(Flat) = {"sticker"}
    /\ Out.val.kind = [tag |-> "Sticker", data |-> Flat.sticker[1]]

====
